---------------------------- MODULE Spec2Model ----------------------------
(***************************************************************************)
(* Beat-synchronised video assembly (TheoV22/tiktok_edits): the beat       *)
(* detector, the intensity profiler, the audio segment selector, the clip  *)
(* classifier, the render engine and the plan builder.                     *)
(*                                                                         *)
(* Units.  Times are integers in centiseconds (cs, 1/100 s), so 0.05 s is  *)
(* 5, 0.1 s is 10 and 0.5 s is 50.  Energies are non-negative integers     *)
(* (an RMS energy scaled by a common factor); every comparison the code    *)
(* makes between means, deviations and RMS values is made here on exact    *)
(* integer cross-products, so no rounding is introduced by the model.      *)
(***************************************************************************)
EXTENDS Integers, Sequences, FiniteSets

VARIABLES det, prof, sel, cls, ex, orch, choice

vars == <<det, prof, sel, cls, ex, orch, choice>>

\* A component that is not running in the specification at hand.
Idle == [pc |-> "idle"]

(***************************************************************************)
(* Bounds of the model.                                                    *)
(***************************************************************************)
\* detect_beats: number of 50 ms chunks and largest chunk energy.
MaxChunks == 6
MaxEnergy == 2
\* detect_beats: number of periods of a periodic chunk-energy signal.
MaxPeriods == 3
\* get_audio_intensity_segments: samples per second of the modelled audio, number
\* of samples, largest sample magnitude, number of beat times.
Fps == 20
MaxSamples == 3
MaxAmp == 1
MaxBeats == 3
\* classify_clip_emotion: largest average motion score, in hundredths.
MaxMotion == 450
\* find_best_segment: number of one-second energy windows of the track, and the
\* integer that stands for the full-scale RMS energy 1.0.
SelMaxWindows == 6
SelMaxEnergy == 1
\* execute_editing_plan: number of beat intervals of a plan, number of clips.
ExMaxIntervals == 2
ExMaxClips == 2
\* create_editing_plan: number of beats detect_beats found on a readable track.
OrchMaxBeats == 3

(***************************************************************************)
(* Arithmetic helpers (numpy / builtins used by the code).                 *)
(***************************************************************************)
RECURSIVE Sum(_)
Sum(s) == IF s = <<>> THEN 0 ELSE Head(s) + Sum(Tail(s))

RECURSIVE SumSq(_)
SumSq(s) == IF s = <<>> THEN 0 ELSE Head(s) * Head(s) + SumSq(Tail(s))

Min2(a, b) == IF a <= b THEN a ELSE b

Max2(a, b) == IF a >= b THEN a ELSE b

Abs(a) == IF a >= 0 THEN a ELSE -a

\* int(np.ceil(a / b)) for a >= 0, b > 0.
CeilDiv(a, b) == (a + b - 1) \div b

\* s[lo:hi] of Python on a sequence, with 0-based bounds already clamped by
\* the slice semantics (a bound past the end stops at the end, lo >= hi is empty).
Slice(s, lo, hi) ==
    LET l == Min2(Max2(lo, 0), Len(s))
        h == Min2(Max2(hi, 0), Len(s))
    IN  IF l >= h THEN <<>> ELSE SubSeq(s, l + 1, h)

\* Insertion of x into an ascending sequence (after its equals).
RECURSIVE InsertAsc(_, _)
InsertAsc(s, x) ==
    IF s = <<>> THEN <<x>>
    ELSE IF x < Head(s) THEN <<x>> \o s
    ELSE <<Head(s)>> \o InsertAsc(Tail(s), x)

RECURSIVE SortAsc(_)
SortAsc(s) == IF s = <<>> THEN <<>> ELSE InsertAsc(SortAsc(SubSeq(s, 1, Len(s) - 1)), s[Len(s)])

\* np.diff
Diff(s) == [k \in 1..(IF Len(s) = 0 THEN 0 ELSE Len(s) - 1) |-> s[k + 1] - s[k]]

\* Twice np.median of a non-empty sequence (twice, to stay in the integers).
Median2(s) ==
    LET t == SortAsc(s)
        n == Len(t)
    IN  IF n % 2 = 1 THEN 2 * t[(n + 1) \div 2] ELSE t[n \div 2] + t[n \div 2 + 1]

(***************************************************************************)
(* Beat detector: video_making/beat_detector.py, detect_beats.             *)
(***************************************************************************)
\* chunk_duration = 0.05 s
ChunkCs == 5
\* spacing of the fallback beats, 0.5 s
FallbackStepCs == 50
\* duration assumed by the fallback when the file cannot be opened, 30.0 s
FallbackDurationCs == 3000

\* The min_interval_s values the model calls detect_beats with (cs); 30 is the default.
MinIntervals == {10, 20, 30}

\* min_interval_chunks = int(min_interval_s / chunk_duration), in IEEE double
\* arithmetic: 0.1/0.05 = 2.0, 0.2/0.05 = 4.0 and 0.3/0.05 = 5.999999999999999,
\* which int() truncates to 5.
MinIntervalChunks(min_interval_s) ==
    CASE min_interval_s = 10 -> 2
      [] min_interval_s = 20 -> 4
      [] min_interval_s = 30 -> 5

\* energies[c] > threshold, threshold = np.mean(energies) + 0.5 * np.std(energies)
\* (population deviation), for the 0-based chunk c.  With n chunks, sum S and
\* sum of squares Q:  e > S/n + 0.5*sqrt(Q/n - (S/n)^2)  iff
\* n*e - S > 0  and  4*(n*e - S)^2 > n*Q - S^2.
AboveThreshold(energies, c) ==
    LET n == Len(energies)
        S == Sum(energies)
        Q == SumSq(energies)
        d == n * energies[c + 1] - S
    IN  d > 0 /\ 4 * d * d > n * Q - S * S

\* The inner loop of detect_beats: no chunk j /= c in
\* range(max(0, c - m), min(len, c + m)) has a strictly greater energy.
IsPeak(energies, c, m) ==
    \A j \in Max2(0, c - m) .. (Min2(Len(energies), c + m) - 1) :
        j /= c => ~(energies[j + 1] > energies[c + 1])

\* beat_chunks, in increasing chunk order.
BeatChunks(energies, min_interval_s) ==
    LET m == MinIntervalChunks(min_interval_s)
        Keep(c) == AboveThreshold(energies, c) /\ IsPeak(energies, c, m)
    IN  SelectSeq([k \in 1..Len(energies) |-> k - 1], Keep)

\* beat_times = [chunk_idx * chunk_duration ...]
BeatTimes(beat_chunks) == [k \in 1..Len(beat_chunks) |-> beat_chunks[k] * ChunkCs]

\* tempo as a fraction <<numerator, denominator>> of beats per minute:
\* 60 / median(diff(beat_times)), 120 when fewer than two beats or a zero median.
\* With the median doubled and in cs, 60 / (med2 / 200) = 12000 / med2.
Tempo(beat_times) ==
    IF Len(beat_times) > 1
    THEN LET med2 == Median2(Diff(beat_times))
         IN  IF med2 > 0 THEN <<12000, med2>> ELSE <<120, 1>>
    ELSE <<120, 1>>

\* list(np.arange(0, duration, 0.5)): 0, 0.5, 1.0, ... strictly below duration.
FallbackBeats(duration) ==
    [k \in 1..CeilDiv(Max2(duration, 0), FallbackStepCs) |-> (k - 1) * FallbackStepCs]

\* The value detect_beats returns.  audio is "ok" (the analysis runs to its end),
\* "analysis_error" (the try block raises but the file can be reopened for its
\* duration) or "unreadable" (AudioFileClip raises both times).
DetectBeats(audio, energies, duration, min_interval_s) ==
    IF audio = "ok"
    THEN LET bc == BeatChunks(energies, min_interval_s)
         IN  [beat_times |-> BeatTimes(bc), tempo |-> Tempo(BeatTimes(bc)), beat_frames |-> bc]
    ELSE LET d  == IF audio = "analysis_error" THEN duration ELSE FallbackDurationCs
             fb == FallbackBeats(d)
         IN  [beat_times |-> fb, tempo |-> <<120, 1>>,
              beat_frames |-> [k \in 1..Len(fb) |-> k - 1]]

\* Chunk-energy sequences of the model.
EnergySeqs == UNION {[1..n -> 0..MaxEnergy] : n \in 0..MaxChunks}

\* Chunks in one period of a 2 Hz signal: 0.5 s of 50 ms chunks.
PeriodChunks == 50 \div ChunkCs

\* The chunk energies of a rectangular pulse train at 2 Hz: in every period the
\* first width chunks have energy amp, the others are silent.
PulseTrain(periods, width, amp) ==
    [k \in 1..(periods * PeriodChunks) |-> IF (k - 1) % PeriodChunks < width THEN amp ELSE 0]

\* A call of detect_beats that has not run yet.  A readable track of n chunks
\* lasts n * 0.05 s (plus a remainder shorter than a chunk, which nothing reads).
DetCalls ==
    {[pc |-> "call", audio |-> "ok", energies |-> e, duration |-> Len(e) * ChunkCs,
      min_interval_s |-> m, result |-> "none"] : e \in EnergySeqs, m \in MinIntervals}
    \cup
    {[pc |-> "call", audio |-> "ok", energies |-> PulseTrain(p, w, a),
      duration |-> p * PeriodChunks * ChunkCs, min_interval_s |-> m, result |-> "none"] :
        p \in 2..MaxPeriods, w \in 1..(PeriodChunks - 1), a \in 1..MaxEnergy, m \in MinIntervals}
    \cup
    {[pc |-> "call", audio |-> a, energies |-> <<>>, duration |-> d, min_interval_s |-> m,
      result |-> "none"] :
        a \in {"analysis_error"}, d \in {0, 30, 50, 120}, m \in MinIntervals}
    \cup
    {[pc |-> "call", audio |-> "unreadable", energies |-> <<>>, duration |-> 0,
      min_interval_s |-> m, result |-> "none"] : m \in MinIntervals}

DetInit ==
    /\ det \in DetCalls
    /\ prof = Idle /\ sel = Idle /\ cls = Idle /\ ex = Idle /\ orch = Idle /\ choice = Idle

\* detect_beats runs on its input and returns.
DetectBeatsCall ==
    /\ det.pc = "call"
    /\ det' = [det EXCEPT !.pc = "done",
                           !.result = DetectBeats(det.audio, det.energies, det.duration,
                                                  det.min_interval_s)]
    /\ UNCHANGED <<prof, sel, cls, ex, orch, choice>>

DetNext == DetectBeatsCall

DetSpec == DetInit /\ [][DetNext]_vars


\* C2: the beat times detect_beats returns are non-decreasing and any two adjacent
\* beats are at least min_interval_s apart.
C2_MinIntervalBetweenBeats ==
    det.pc = "done" =>
        \A k \in 1..(Len(det.result.beat_times) - 1) :
            det.result.beat_times[k + 1] - det.result.beat_times[k] >= det.min_interval_s

\* C3: when the analysis fails, or finds zero or one beat, detect_beats returns
\* beats every 0.5 s across the track's duration and tempo 120.
C3_FallbackOnFewBeats ==
    (/\ det.pc = "done"
     /\ \/ det.audio = "analysis_error"
        \/ det.audio = "ok" /\ Len(BeatChunks(det.energies, det.min_interval_s)) <= 1)
    => /\ det.result.beat_times = FallbackBeats(det.duration)
       /\ det.result.tempo = <<120, 1>>

\* The chunk energies repeat with a period of ten chunks over at least two periods.
PeriodicAt2Hz(energies) ==
    /\ Len(energies) >= 2 * PeriodChunks
    /\ \A k \in 1..(Len(energies) - PeriodChunks) : energies[k] = energies[k + PeriodChunks]

\* C11: the tempo is 60 / median gap between adjacent returned beats, 120 with
\* fewer than two beats; on a chunk-energy signal periodic at 2 Hz, whatever the
\* pulse width, it is within 5 BPM of 120.
C11_TempoOfPeriodicSignal ==
    (det.pc = "done" /\ det.audio = "ok") =>
        LET bt == det.result.beat_times
            t  == det.result.tempo
        IN  /\ t[2] > 0
            /\ IF Len(bt) >= 2
               THEN t[1] * Median2(Diff(bt)) = 12000 * t[2]
               ELSE t[1] = 120 * t[2]
            /\ PeriodicAt2Hz(det.energies) => (115 * t[2] <= t[1] /\ t[1] <= 125 * t[2])

(***************************************************************************)
(* Intensity profiler: video_making/beat_detector.py,                      *)
(* get_audio_intensity_segments.                                           *)
(*                                                                         *)
(* A sample is modelled by its magnitude.  An intensity is carried as the  *)
(* fraction <<n, d>> (d > 0) whose value is the SQUARE of the float the    *)
(* code holds: rms = sqrt(sum of squares / length) is <<sum of squares,    *)
(* length>>.  Squaring is strictly increasing on the non-negative reals,   *)
(* so max(), the test > 0, membership of [0,1] and equality with 1.0 are   *)
(* decided on the squares exactly as the code decides them on the floats.  *)
(***************************************************************************)
\* int(beat_time * fps)
SampleAt(t) == (t * Fps) \div 100

FracLe(a, b) == a[1] * b[2] <= b[1] * a[2]

\* rms of audio_array[start_sample:end_sample] for the interval after beat i
\* (1-based), 0.0 for an empty slice.
SegmentRms(samples, beat_times, i) ==
    LET start_sample == SampleAt(beat_times[i])
        end_sample   == Min2(SampleAt(beat_times[i + 1]), Len(samples))
        segment      == Slice(samples, start_sample, end_sample)
    IN  IF Len(segment) > 0 THEN <<SumSq(segment), Len(segment)>> ELSE <<0, 1>>

\* A plausible slip: normalising by the first value instead of the largest.
MaxIntensityMut(intensities) == intensities[1]

\* max(intensities) of a non-empty list
MaxIntensity(intensities) ==
    intensities[CHOOSE k \in 1..Len(intensities) :
                    \A j \in 1..Len(intensities) : FracLe(intensities[j], intensities[k])]

\* [i / max_intensity for i in intensities], when the list is non-empty and its
\* maximum is positive.
Normalize(intensities) ==
    IF Len(intensities) = 0 THEN intensities
    ELSE LET mx == MaxIntensity(intensities)
         IN  IF mx[1] > 0
             THEN [k \in 1..Len(intensities) |->
                      <<intensities[k][1] * mx[2], intensities[k][2] * mx[1]>>]
             ELSE intensities

\* The value get_audio_intensity_segments returns: the normalised list, or [] when
\* opening or decoding the audio raises.
GetAudioIntensitySegments(audio, samples, beat_times) ==
    IF audio = "ok"
    THEN Normalize([i \in 1..(IF Len(beat_times) = 0 THEN 0 ELSE Len(beat_times) - 1) |->
                       SegmentRms(samples, beat_times, i)])
    ELSE <<>>

SampleSeqs == UNION {[1..n -> 0..MaxAmp] : n \in 0..MaxSamples}

\* Beat times handed to the profiler: any list, on the chunk grid, up to one chunk
\* past the longest audio.
ProfBeatSeqs == UNION {[1..n -> {k * ChunkCs : k \in 0..(MaxSamples + 1)}] : n \in 0..MaxBeats}

ProfInit ==
    /\ prof \in {[pc |-> "call", audio |-> a, samples |-> s, beat_times |-> b,
                  result |-> "none"] :
                    a \in {"ok", "unreadable"}, s \in SampleSeqs, b \in ProfBeatSeqs}
    /\ det = Idle /\ sel = Idle /\ cls = Idle /\ ex = Idle /\ orch = Idle /\ choice = Idle

\* get_audio_intensity_segments runs on its input and returns.
GetAudioIntensitySegmentsCall ==
    /\ prof.pc = "call"
    /\ prof' = [prof EXCEPT !.pc = "done",
                            !.result = GetAudioIntensitySegments(prof.audio, prof.samples,
                                                                 prof.beat_times)]
    /\ UNCHANGED <<det, sel, cls, ex, orch, choice>>

ProfNext == GetAudioIntensitySegmentsCall

ProfSpec == ProfInit /\ [][ProfNext]_vars

\* C4: for a list of at least one beat time, get_audio_intensity_segments returns
\* exactly len(beat_times) - 1 values, whether or not the audio can be read.
C4_OneValuePerInterval ==
    (prof.pc = "done" /\ Len(prof.beat_times) >= 1)
    => Len(prof.result) = Len(prof.beat_times) - 1

\* C5: every returned intensity lies in [0,1], and the largest is 1.0 whenever some
\* inter-beat slice has non-zero energy; a beat past the end of the audio gives 0.0.
C5_NormalizedIntensities ==
    prof.pc = "done" =>
        /\ \A k \in 1..Len(prof.result) :
              /\ prof.result[k][2] > 0
              /\ 0 <= prof.result[k][1]
              /\ prof.result[k][1] <= prof.result[k][2]
        /\ (prof.audio = "ok" /\ \E i \in 1..(Len(prof.beat_times) - 1) :
                                    SegmentRms(prof.samples, prof.beat_times, i)[1] > 0)
           => \E k \in 1..Len(prof.result) : prof.result[k][1] = prof.result[k][2]
        /\ \A i \in 1..Len(prof.result) :
              SampleAt(prof.beat_times[i]) >= Len(prof.samples) => prof.result[i][1] = 0

\* C5 witness: a profile of three intervals over audible audio whose values are
\* 1.0, a value strictly between 0 and 1 ... reached with a beat past the end.
C5_Witness ==
    /\ prof.pc = "done" /\ prof.audio = "ok"
    /\ Len(prof.result) >= 2
    /\ \E k \in 1..Len(prof.result) : prof.result[k][1] = prof.result[k][2]
    /\ \E k \in 1..Len(prof.result) :
          /\ SampleAt(prof.beat_times[k]) >= Len(prof.samples)
          /\ prof.result[k][1] = 0

(***************************************************************************)
(* Clip classifier: tools/clip_classifier.py, classify_clip_emotion.       *)
(*                                                                         *)
(* A motion score is an integer number of hundredths (2.0 is 200).  An     *)
(* intensity is an integer number of 1/1200ths (1.0 is 1200, 0.9 is 1080,  *)
(* 0.5 is 600), the unit in which score/4, score/3, score/2 and score are  *)
(* all integers: 3*s, 4*s, 6*s and 12*s.                                   *)
(***************************************************************************)
\* A plausible slip: the thresholds taken inclusively.
ClassifyMotionMut(avg_motion) ==
    IF avg_motion >= 200 THEN [emotion |-> "rage", intensity |-> Min2(1200, 3 * avg_motion)]
    ELSE IF avg_motion >= 100 THEN [emotion |-> "epic", intensity |-> Min2(1080, 4 * avg_motion)]
    ELSE IF avg_motion >= 50 THEN [emotion |-> "calm", intensity |-> 6 * avg_motion]
    ELSE [emotion |-> "sad", intensity |-> 12 * avg_motion]

\* The threshold ladder of lines 65-76.
ClassifyMotion(avg_motion) ==
    IF avg_motion > 200 THEN [emotion |-> "rage", intensity |-> Min2(1200, 3 * avg_motion)]
    ELSE IF avg_motion > 100 THEN [emotion |-> "epic", intensity |-> Min2(1080, 4 * avg_motion)]
    ELSE IF avg_motion > 50 THEN [emotion |-> "calm", intensity |-> 6 * avg_motion]
    ELSE [emotion |-> "sad", intensity |-> 12 * avg_motion]

\* {'emotion': 'calm', 'intensity': 0.5, 'motion_score': 0.0}
DefaultClassification == [emotion |-> "calm", intensity |-> 600, motion_score |-> 0]

\* The value classify_clip_emotion returns.  video is "ok" (at least one frame pair
\* was measured), "no_first_frame" (the first read fails), "one_frame" (no frame
\* pair: motion_scores is empty) or "error" (an exception inside the try block).
ClassifyClipEmotion(video, avg_motion) ==
    IF video = "ok"
    THEN LET c == ClassifyMotion(avg_motion)
         IN  [emotion |-> c.emotion, intensity |-> c.intensity, motion_score |-> avg_motion]
    ELSE DefaultClassification

\* The state of the cv2.VideoCapture of line 21 when the call returns: released at
\* line 56 once the frame loop is over; the return of line 26 (no first frame) and
\* the except of lines 84-86 come before any release.
CaptureAfter(video) == IF video \in {"ok", "one_frame"} THEN "released" ELSE "open"

ClsInit ==
    /\ cls \in {[pc |-> "call", video |-> "ok", avg_motion |-> m, capture |-> "none",
                  result |-> "none"] : m \in 0..MaxMotion}
               \cup
               {[pc |-> "call", video |-> v, avg_motion |-> 0, capture |-> "none",
                 result |-> "none"] : v \in {"no_first_frame", "one_frame", "error"}}
    /\ det = Idle /\ prof = Idle /\ sel = Idle /\ ex = Idle /\ orch = Idle /\ choice = Idle

\* classify_clip_emotion runs on its input and returns.
ClassifyClipEmotionCall ==
    /\ cls.pc = "call"
    /\ cls' = [cls EXCEPT !.pc = "done",
                          !.capture = CaptureAfter(cls.video),
                          !.result = ClassifyClipEmotion(cls.video, cls.avg_motion)]
    /\ UNCHANGED <<det, prof, sel, ex, orch, choice>>

ClsNext == ClassifyClipEmotionCall

ClsSpec == ClsInit /\ [][ClsNext]_vars

\* C10: for a score s averaged over at least one frame pair, the result is rage with
\* min(1, s/4) when s > 2.0, epic with min(0.9, s/3) when 1.0 < s <= 2.0, calm with
\* s/2 when 0.5 < s <= 1.0 and sad with s otherwise; the intensity is in [0,1] and a
\* zero-motion clip is sad with intensity 0.0.
C10_ThresholdLadder ==
    (cls.pc = "done" /\ cls.video = "ok") =>
        LET s == cls.avg_motion
            r == cls.result
        IN  /\ r.motion_score = s
            /\ s > 200 => /\ r.emotion = "rage"
                          /\ IF s >= 400 THEN r.intensity = 1200 ELSE 4 * r.intensity = 12 * s
            /\ (100 < s /\ s <= 200) => /\ r.emotion = "epic"
                                        /\ 3 * r.intensity = 12 * s
                                        /\ r.intensity <= 1080
            /\ (50 < s /\ s <= 100) => r.emotion = "calm" /\ 2 * r.intensity = 12 * s
            /\ s <= 50 => r.emotion = "sad" /\ r.intensity = 12 * s
            /\ 0 <= r.intensity /\ r.intensity <= 1200
            /\ s = 0 => r.emotion = "sad" /\ r.intensity = 0

\* C10 witness: a clip whose score is above 4.0 is classified rage with the capped
\* intensity 1.0.
C10_Witness ==
    /\ cls.pc = "done" /\ cls.video = "ok"
    /\ cls.avg_motion > 400
    /\ cls.result.emotion = "rage" /\ cls.result.intensity = 1200

(***************************************************************************)
(* Audio segment selector: tools/audio_segment_selector.py,                *)
(* find_best_segment.                                                      *)
(*                                                                         *)
(* The RMS energy of a one-second window of samples in [-1, 1] lies in     *)
(* [0, 1]; it is modelled by an integer k in 0..SelMaxEnergy standing for  *)
(* k / SelMaxEnergy.  A mean or a score is a fraction <<n, d>> with d > 0  *)
(* in that unit; <<0, 0>> is NaN, the np.mean of an empty slice.  A        *)
(* pattern string is modelled by its '-'-separated tokens.  An optional    *)
(* value is <<>> for None and <<v>> for v.                                 *)
(***************************************************************************)
None == <<>>

Some(v) == <<v>>

NaN == <<0, 0>>

IsNaN(x) == x[2] = 0

\* np.mean
Mean(s) == IF Len(s) = 0 THEN NaN ELSE <<Sum(s), Len(s)>>

FracSub(a, b) == IF IsNaN(a) \/ IsNaN(b) THEN NaN ELSE <<a[1] * b[2] - b[1] * a[2], a[2] * b[2]>>

FracAdd(a, b) == IF IsNaN(a) \/ IsNaN(b) THEN NaN ELSE <<a[1] * b[2] + b[1] * a[2], a[2] * b[2]>>

FracHalf(a) == IF IsNaN(a) THEN NaN ELSE <<a[1], 2 * a[2]>>

FracNeg(a) == IF IsNaN(a) THEN NaN ELSE <<-a[1], a[2]>>

\* a > b on floats: false when either is NaN.
FracGt(a, b) == ~IsNaN(a) /\ ~IsNaN(b) /\ a[1] * b[2] > b[1] * a[2]

\* int(n * 0.3), int(n * 0.4), ... for a non-negative integer n: on IEEE doubles the
\* product truncates to floor(n * tenths / 10) for every n in 0..30.
IntFrac(n, tenths) == (n * tenths) \div 10

\* np.argmax: the 0-based index of the first largest element.
ArgMax(s) == (CHOOSE k \in 1..Len(s) :
                 /\ \A j \in 1..Len(s) : s[j] <= s[k]
                 /\ \A j \in 1..(k - 1) : s[j] < s[k]) - 1

\* pattern.count(token)
RECURSIVE Count(_, _)
Count(pattern, token) ==
    IF pattern = <<>> THEN 0
    ELSE (IF Head(pattern) = token THEN 1 ELSE 0) + Count(Tail(pattern), token)

\* The seven patterns select_editing_pattern draws from and one the selector does not know.
Patterns ==
    {<<"calm", "rage">>, <<"rage", "calm">>, <<"calm", "rage", "calm">>,
     <<"calm", "calm", "rage">>, <<"rage", "rage", "calm">>, <<"calm", "calm", "calm">>,
     <<"rage", "rage", "rage">>, <<"epic", "sad">>}

\* The branch of the if/elif chain of lines 68-129 a pattern takes.
Branch(pattern) ==
    IF pattern = <<"calm", "rage">> THEN "calm-rage"
    ELSE IF pattern = <<"rage", "calm">> THEN "rage-calm"
    ELSE IF pattern = <<"calm", "rage", "calm">> THEN "calm-rage-calm"
    ELSE IF Count(pattern, "rage") >= 2 THEN "rage"
    ELSE IF Count(pattern, "calm") >= 2 THEN "calm"
    ELSE "default"

\* A plausible slip: the calm-rage score with its sign reversed.
ScoreCalmRageMut(segment, tw) ==
    FracSub(Mean(Slice(segment, 0, IntFrac(tw, 4))), Mean(Slice(segment, IntFrac(tw, 5), tw)))

\* drop - intro of lines 72-74 (and 124-126)
ScoreCalmRage(segment, tw) ==
    FracSub(Mean(Slice(segment, IntFrac(tw, 5), tw)), Mean(Slice(segment, 0, IntFrac(tw, 4))))

\* The score of one placement, by branch.
Score(branch, segment, tw) ==
    CASE branch \in {"calm-rage", "default"} -> ScoreCalmRage(segment, tw)
      [] branch = "rage-calm" ->
            FracSub(Mean(Slice(segment, 0, IntFrac(tw, 4))),
                    Mean(Slice(segment, IntFrac(tw, 6), tw)))
      [] branch = "calm-rage-calm" ->
            FracSub(Mean(Slice(segment, IntFrac(tw, 4), IntFrac(tw, 6))),
                    FracHalf(FracAdd(Mean(Slice(segment, 0, IntFrac(tw, 3))),
                                     Mean(Slice(segment, IntFrac(tw, 7), tw)))))
      [] branch = "rage" -> Mean(segment)
      [] branch = "calm" -> FracNeg(Mean(segment))

\* A plausible slip: the offset of the loudest window alone, without the start.
CalmRageEndMut(start_window, segment) == 100 * ArgMax(segment)

\* calm_end_time = start_window + np.argmax(segment), lines 77 and 129 (in cs)
CalmRageEnd(start_window, segment) == 100 * (start_window + ArgMax(segment))

\* calm_end_time as the branch sets it when a placement becomes the best.
CalmEnd(branch, start_window, segment, tw) ==
    CASE branch \in {"calm-rage", "default"} -> Some(CalmRageEnd(start_window, segment))
      [] branch = "rage-calm" -> Some(100 * (start_window + IntFrac(tw, 7)))
      [] branch = "calm-rage-calm" -> Some(100 * (start_window + IntFrac(tw, 4)))
      [] branch \in {"rage", "calm"} -> None

\* energies[start_window:start_window + target_windows]
Placement(energies, start_window, tw) == Slice(energies, start_window, start_window + tw)

\* The for loop over range(len(energies) - target_windows), from start_window k on,
\* carrying st = [best_score, best_start, calm_end_time].
RECURSIVE Scan(_, _, _, _, _)
Scan(energies, tw, branch, k, st) ==
    IF k >= Len(energies) - tw THEN st
    ELSE LET segment == Placement(energies, k, tw)
             score   == Score(branch, segment, tw)
         IN  Scan(energies, tw, branch, k + 1,
                  IF FracGt(score, st.best_score)
                  THEN [best_score |-> score, best_start |-> k,
                        calm_end_time |-> CalmEnd(branch, k, segment, tw)]
                  ELSE st)

\* A plausible slip: the default transition taken from the target, not the track.
WholeTrackMut(total_duration, target_duration) ==
    [start_time |-> 0, end_time |-> total_duration, duration |-> total_duration,
     calm_end |-> Some((target_duration * 6) \div 10)]

\* The early return of lines 30-37.
WholeTrack(total_duration, target_duration) ==
    [start_time |-> 0, end_time |-> total_duration, duration |-> total_duration,
     calm_end |-> Some((total_duration * 6) \div 10)]

\* The except branch of lines 144-154.
SelectorFallback(target_duration) ==
    [start_time |-> 0, end_time |-> Min2(target_duration, 3000),
     duration |-> Min2(target_duration, 3000), calm_end |-> Some((target_duration * 6) \div 10)]

\* The value find_best_segment returns.  audio is "ok", "analysis_error" (the file
\* opens and has a duration, decoding it raises) or "unreadable" (opening raises).
FindBestSegment(audio, total_duration, energies, target_duration, pattern) ==
    IF audio = "unreadable" THEN SelectorFallback(target_duration)
    ELSE IF total_duration <= target_duration THEN WholeTrack(total_duration, target_duration)
    ELSE IF audio = "analysis_error" THEN SelectorFallback(target_duration)
    ELSE LET tw == target_duration \div 100
             st == Scan(energies, tw, Branch(pattern), 0,
                        [best_score |-> <<-SelMaxEnergy, 1>>, best_start |-> 0,
                         calm_end_time |-> Some((target_duration * 6) \div 10)])
         IN  [start_time |-> 100 * st.best_start,
              end_time |-> 100 * st.best_start + target_duration,
              duration |-> target_duration,
              calm_end |-> st.calm_end_time]

\* The state of the AudioFileClip of line 26 when the call returns: never opened
\* when opening raises, closed at line 31 (short track) or line 135 (scan done),
\* left open when a later line raises into the except of lines 144-154.
AudioClipAfter(audio, total_duration, target_duration) ==
    IF audio = "unreadable" THEN "none"
    ELSE IF total_duration <= target_duration THEN "closed"
    ELSE IF audio = "analysis_error" THEN "open"
    ELSE "closed"

\* target_duration values of the model (cs): 3 s, 3.5 s and 4 s.
SelTargets == {300, 350, 400}

SelEnergySeqs == UNION {[1..n -> 0..SelMaxEnergy] : n \in 0..SelMaxWindows}

\* Calls of find_best_segment.  A readable track of n seconds and a fraction has n
\* energy windows (num_windows = len(audio_array) // fps): the fraction is dropped.
SelCalls ==
    {[pc |-> "call", audio |-> "ok", total_duration |-> 100 * Len(e) + f, energies |-> e,
      target_duration |-> t, pattern |-> p, audio_clip |-> "none", result |-> "none"] :
        e \in SelEnergySeqs, f \in {0, 50}, t \in SelTargets, p \in Patterns}
    \cup
    {[pc |-> "call", audio |-> a, total_duration |-> d, energies |-> <<>>,
      target_duration |-> t, pattern |-> p, audio_clip |-> "none", result |-> "none"] :
        a \in {"analysis_error", "unreadable"}, d \in {200, 600, 7000},
        t \in SelTargets \cup {6000}, p \in Patterns}

SelInit ==
    /\ sel \in SelCalls
    /\ det = Idle /\ prof = Idle /\ cls = Idle /\ ex = Idle /\ orch = Idle /\ choice = Idle

\* find_best_segment runs on its input and returns.
FindBestSegmentCall ==
    /\ sel.pc = "call"
    /\ sel' = [sel EXCEPT !.pc = "done",
                          !.audio_clip = AudioClipAfter(sel.audio, sel.total_duration,
                                                        sel.target_duration),
                          !.result = FindBestSegment(sel.audio, sel.total_duration, sel.energies,
                                                     sel.target_duration, sel.pattern)]
    /\ UNCHANGED <<det, prof, cls, ex, orch, choice>>

SelNext == FindBestSegmentCall

SelSpec == SelInit /\ [][SelNext]_vars


\* C6: when the track is not longer than the target, find_best_segment returns
\* start 0, end and duration equal to the track duration and a transition at 60% of
\* the track duration, whatever the pattern.
C6_WholeTrackWhenShort ==
    (sel.pc = "done" /\ sel.audio /= "unreadable" /\ sel.total_duration <= sel.target_duration)
    => /\ sel.result.start_time = 0
       /\ sel.result.end_time = sel.total_duration
       /\ sel.result.duration = sel.total_duration
       /\ sel.result.calm_end /= None
       /\ 10 * sel.result.calm_end[1] = 6 * sel.total_duration

\* C6 witness: a track strictly shorter than the target, selected whole under a
\* monotone pattern, still with a transition.
C6_Witness ==
    /\ sel.pc = "done" /\ sel.audio = "ok"
    /\ sel.total_duration > 0 /\ sel.total_duration < sel.target_duration
    /\ sel.pattern = <<"rage", "rage", "rage">>
    /\ sel.result.end_time = sel.total_duration
    /\ sel.result.calm_end = Some((sel.total_duration * 6) \div 10)

\* A call of find_best_segment for pattern calm-rage on a readable track longer
\* than the target, that has returned.
CalmRageReturned ==
    /\ sel.pc = "done" /\ sel.audio = "ok"
    /\ sel.pattern = <<"calm", "rage">>
    /\ sel.total_duration > sel.target_duration

\* The target window's whole seconds placed at second k of the track.
WindowAt(k) == SubSeq(sel.energies, k + 1, k + sel.target_duration \div 100)

\* The window find_best_segment returned.
ReturnedWindow == WindowAt(sel.result.start_time \div 100)

\* The back half of a window is louder on average than its front 40%.
BackLouderThanFront(w) ==
    LET front == SubSeq(w, 1, (4 * Len(w)) \div 10)
        back  == SubSeq(w, Len(w) \div 2 + 1, Len(w))
    IN  /\ Len(front) > 0 /\ Len(back) > 0
        /\ Sum(back) * Len(front) > Sum(front) * Len(back)

\* The placements the scan visits: every placement inside the track but the last.
ScannedStarts == 0..(Len(sel.energies) - sel.target_duration \div 100 - 1)

LoudestOffset(w) ==
    100 * ((CHOOSE k \in 1..Len(w) : /\ \A j \in 1..Len(w) : w[j] <= w[k]
                                     /\ \A j \in 1..(k - 1) : w[j] < w[k]) - 1)

\* The scan adopts a placement: one it visits scores above -1 (full scale), that is
\* its front 40% is non-empty and not (front at full scale, back silent).
SomePlacementAdopted ==
    \E k \in ScannedStarts :
        LET w     == WindowAt(k)
            front == SubSeq(w, 1, (4 * Len(w)) \div 10)
            back  == SubSeq(w, Len(w) \div 2 + 1, Len(w))
        IN  /\ Len(front) > 0 /\ Len(back) > 0
            /\ Sum(back) * Len(front) - Sum(front) * Len(back)
                  > -SelMaxEnergy * Len(front) * Len(back)

SelectorFailed ==
    /\ sel.pc = "done"
    /\ \/ sel.audio = "unreadable"
       \/ sel.audio = "analysis_error" /\ sel.total_duration > sel.target_duration

\* C14: on an analysis failure find_best_segment returns start 0 and
\* end = duration = min(target_duration, 30 s), with a transition at 60% of the
\* returned duration, hence inside the returned window, whatever the target.
C14_FallbackWindow ==
    SelectorFailed =>
        /\ sel.result.start_time = 0
        /\ sel.result.end_time = Min2(sel.target_duration, 3000)
        /\ sel.result.duration = Min2(sel.target_duration, 3000)
        /\ sel.result.calm_end /= None
        /\ 10 * sel.result.calm_end[1] = 6 * sel.result.duration
        /\ sel.result.calm_end[1] <= sel.result.end_time

\* A call of find_best_segment on a readable track longer than the target, that
\* has returned.
LongTrackReturned ==
    /\ sel.pc = "done" /\ sel.audio = "ok"
    /\ sel.total_duration > sel.target_duration

\* The starts (whole seconds) of the placements of the target window that fit
\* inside the track.
FittingStarts ==
    {k \in 0..Len(sel.energies) :
        /\ 100 * k + sel.target_duration <= sel.total_duration
        /\ k + sel.target_duration \div 100 <= Len(sel.energies)}

\* The pattern score of the placement that starts at second k.
ScoreAt(k) ==
    Score(Branch(sel.pattern), WindowAt(k), sel.target_duration \div 100)

\* C16: for a track longer than the target, find_best_segment returns the start
\* of the placement of maximum pattern score among all the placements that fit
\* inside the track, the last one included, and the earliest of equal maxima.
C16_MaximumScorePlacement ==
    LongTrackReturned =>
        LET k == sel.result.start_time \div 100
        IN  /\ sel.result.start_time = 100 * k
            /\ k \in FittingStarts
            /\ \A j \in FittingStarts : ~FracGt(ScoreAt(j), ScoreAt(k))
            /\ \A j \in FittingStarts : j < k => FracGt(ScoreAt(k), ScoreAt(j))

\* A monotone pattern: it repeats the token rage or the token calm at least twice
\* and is not the calm-rage-calm arc.
Monotone(pattern) ==
    /\ Count(pattern, "rage") >= 2 \/ Count(pattern, "calm") >= 2
    /\ pattern /= <<"calm", "rage", "calm">>

\* C17: for a track longer than the target and no analysis failure, the returned
\* transition is absent if and only if the pattern is monotone, whatever the
\* energies and however many whole seconds the track has.
C17_NoTransitionIffMonotone ==
    LongTrackReturned => (sel.result.calm_end = None <=> Monotone(sel.pattern))

(***************************************************************************)
(* Render engine: agents/executor.py, execute_editing_plan.                *)
(*                                                                         *)
(* A media clip is modelled by what the code reads of it: its duration.    *)
(* A segment cut from a source keeps the cut [start, end] and the length   *)
(* of the (possibly looped) source it was cut from.  Frame geometry (crop, *)
(* resize) and pixel values (flash, zoom) are not part of the state.       *)
(* raised names the step whose exception ended the call ("none" when no    *)
(* step raised past the per-clip handler); file is what the call has left  *)
(* at output_path: "absent", "partial" (an encode that was cut short) or   *)
(* "complete".                                                             *)
(***************************************************************************)
\* The 0.1 s tolerance of lines 100 and 166.
ToleranceCs == 10

ClipTypes == {"calm", "rage", "mixed"}

\* The clips of the model: <<duration (cs), intensity (1/1200)>>.
ClipKinds == {[duration |-> 20, intensity |-> 1200], [duration |-> 55, intensity |-> 300],
              [duration |-> 120, intensity |-> 1200]}

\* Segment-local beat times of the model: gaps of 0.3 s, 1.15 s and 0.5 s in turn.
RECURSIVE BeatAt(_)
BeatAt(j) ==
    IF j = 0 THEN 0
    ELSE BeatAt(j - 1) + (CASE j % 3 = 1 -> 30 [] j % 3 = 2 -> 115 [] OTHER -> 50)

\* A plausible slip: the fade-out attached to the interval before the last.
PlanEffectsMut(i, n) ==
    (IF i = 0 THEN <<"fade_in">> ELSE <<>>) \o (IF i = n - 2 THEN <<"fade_out">> ELSE <<>>)
    \o <<"flash", "zoom_pulse">>

\* effects of interval i (0-based) of n, as create_editing_plan attaches them.
PlanEffects(i, n) ==
    (IF i = 0 THEN <<"fade_in">> ELSE <<>>) \o (IF i = n - 1 THEN <<"fade_out">> ELSE <<>>)
    \o <<"flash", "zoom_pulse">>

\* A plan of n beat intervals with the given clip types, over the given clips.
Plan(types, clips, audio_duration) ==
    [beat_times |-> [j \in 1..(Len(types) + 1) |-> BeatAt(j - 1)],
     beat_assignments |-> [i \in 1..Len(types) |->
                              [beat_idx |-> i - 1, clip_type |-> types[i],
                               effects |-> PlanEffects(i - 1, Len(types))]],
     clip_classifications |-> clips,
     audio_duration |-> audio_duration]

\* Durations (cs) of the plan's audio segment, segment['end'] - segment['start'].
AudioDurations == {40, 100, 160}

Plans ==
    {Plan(t, c, a) :
        t \in UNION {[1..n -> ClipTypes] : n \in 0..ExMaxIntervals},
        c \in UNION {[1..n -> ClipKinds] : n \in 0..ExMaxClips},
        a \in AudioDurations}

\* Insertion of index x into a list of indices ordered by key, after the indices
\* whose key is not worse: Python's sorted() is stable, also with reverse=True.
RECURSIVE InsertByKey(_, _, _, _)
InsertByKey(s, x, key, reverse) ==
    IF s = <<>> THEN <<x>>
    ELSE IF (IF reverse THEN key[x] > key[Head(s)] ELSE key[x] < key[Head(s)])
         THEN <<x>> \o s
         ELSE <<Head(s)>> \o InsertByKey(Tail(s), x, key, reverse)

\* sorted(clip_classifications.items(), key=intensity, reverse=...), as clip indices.
RECURSIVE SortedClips(_, _, _)
SortedClips(key, n, reverse) ==
    IF n = 0 THEN <<>> ELSE InsertByKey(SortedClips(key, n - 1, reverse), n, key, reverse)

\* A plausible slip: the two sorted pools exchanged.
CandidateClipsMut(clips, clip_type) ==
    LET key == [c \in 1..Len(clips) |-> clips[c].intensity]
    IN  IF clip_type = "rage" THEN SortedClips(key, Len(clips), FALSE)
        ELSE IF clip_type = "calm" THEN SortedClips(key, Len(clips), TRUE)
        ELSE [c \in 1..Len(clips) |-> c]

\* candidate_clips for a clip type (lines 68-73), as clip indices.
CandidateClips(clips, clip_type) ==
    LET key == [c \in 1..Len(clips) |-> clips[c].intensity]
    IN  IF clip_type = "rage" THEN SortedClips(key, Len(clips), TRUE)
        ELSE IF clip_type = "calm" THEN SortedClips(key, Len(clips), FALSE)
        ELSE [c \in 1..Len(clips) |-> c]

\* selected_path = candidate_clips[i % len(candidate_clips)][0]
SelectedPath(clips, clip_type, i) == CandidateClips(clips, clip_type)[(i % Len(clips)) + 1]

\* A plausible slip: the number of loops rounded down.
NumLoopsMut(segment_duration, video_duration) == segment_duration \div video_duration

\* num_loops = int(np.ceil(segment_duration / video.duration)), line 109
NumLoops(segment_duration, video_duration) == CeilDiv(segment_duration, video_duration)

\* The start points random.uniform(0, max_start) is sampled at.
StartPoints(max_start) == {0, max_start \div 2, max_start}

\* The cuts lines 99-113 can make of a source of duration v for an interval of
\* duration d: [source: length cut from, loops, start, end].
Cuts(v, d) ==
    IF v > d + ToleranceCs
    THEN IF v - d > 0
         THEN {[source |-> v, loops |-> 1, start |-> sp, end |-> sp + d] :
                  sp \in StartPoints(v - d)}
         ELSE {[source |-> v, loops |-> 1, start |-> 0, end |-> Min2(d, v)]}
    ELSE IF v < d
         THEN {[source |-> NumLoops(d, v) * v, loops |-> NumLoops(d, v), start |-> 0, end |-> d]}
         ELSE {[source |-> v, loops |-> 1, start |-> 0, end |-> d]}

\* A plausible slip: a video shorter than the audio is left as it is.
ReconcileMut(video_duration, audio_duration) ==
    IF video_duration - audio_duration > ToleranceCs THEN audio_duration ELSE video_duration

\* final_video.duration after lines 160-178: looped ceil(audio/video) times and cut
\* to the audio when shorter, cut to the audio when longer, untouched within 0.1 s.
Reconcile(video_duration, audio_duration) ==
    IF Abs(video_duration - audio_duration) > ToleranceCs
    THEN IF video_duration < audio_duration
         THEN Min2(CeilDiv(audio_duration, video_duration) * video_duration, audio_duration)
         ELSE audio_duration
    ELSE video_duration

\* A plausible slip: every effect of the assignment applied to its segment.
SegmentEffectsMut(effects) == effects

\* Effects applied to a segment, lines 116-140: the fades are skipped.
SegmentEffects(effects) == SelectSeq(effects, LAMBDA e : e \in {"flash", "zoom_pulse"})

\* The steps of lines 156-190 in the order of the code: concatenate_videoclips, the
\* duration reconciliation, FadeIn and FadeOut on the final video, with_audio.
FinalSteps == <<"concatenate", "reconcile", "fades", "audio">>

\* The media handles the call holds open: the AudioFileClip of line 26, the
\* sub-clip of line 28, and the number of VideoFileClip of line 78.
NoHandles == [audio_full |-> FALSE, audio |-> FALSE, videos |-> 0]

\* selected is the log of line 75 (one entry per interval the loop reached), steps
\* the log of the steps taken after the loop.
ExInit ==
    /\ ex \in {[pc |-> "start", plan |-> p, k |-> 1, clips |-> <<>>, failed |-> 0,
                selected |-> <<>>, steps |-> <<>>, open |-> NoHandles,
                video_duration |-> 0, final_duration |-> 0, raised |-> "none",
                file |-> "absent", result |-> "none"] : p \in Plans}
    /\ det = Idle /\ prof = Idle /\ sel = Idle /\ cls = Idle /\ orch = Idle /\ choice = Idle

\* Lines 24-54: the audio is opened and cut to the plan's segment, the pools sorted.
LoadAudio ==
    /\ ex.pc = "start"
    /\ ex' = [ex EXCEPT !.pc = "loop",
                         !.open = [audio_full |-> TRUE, audio |-> TRUE, videos |-> 0]]
    /\ UNCHANGED <<det, prof, sel, cls, orch, choice>>

\* AudioFileClip raises, nothing was opened: the outer except returns None.
LoadAudioFails ==
    /\ ex.pc = "start"
    /\ ex' = [ex EXCEPT !.pc = "done", !.raised = "audio", !.result = "None"]
    /\ UNCHANGED <<det, prof, sel, cls, orch, choice>>

\* The for loop is at an assignment it will process (no break at line 58-59).
InLoop ==
    /\ ex.pc = "loop"
    /\ ex.k <= Len(ex.plan.beat_assignments)
    /\ ex.plan.beat_assignments[ex.k].beat_idx < Len(ex.plan.beat_times) - 1

\* Line 75 with an empty clip_classifications: i % 0 raises outside the inner try,
\* the outer except returns None.
NoCandidates ==
    /\ InLoop
    /\ Len(ex.plan.clip_classifications) = 0
    /\ ex' = [ex EXCEPT !.pc = "done", !.raised = "candidates", !.result = "None"]
    /\ UNCHANGED <<det, prof, sel, cls, orch, choice>>

\* Lines 57-75 for the assignment the loop is at: its index, its clip type and the
\* clip selected for it.
Selection ==
    LET a == ex.plan.beat_assignments[ex.k]
    IN  [beat_idx |-> a.beat_idx, clip_type |-> a.clip_type,
         path |-> SelectedPath(ex.plan.clip_classifications, a.clip_type, a.beat_idx)]

\* A plausible slip: the exception of a clip is not caught inside the loop and
\* ends the call.
ClipFailsMut ==
    /\ InLoop
    /\ Len(ex.plan.clip_classifications) > 0
    /\ \E opened \in BOOLEAN :
          ex' = [ex EXCEPT !.pc = "done", !.failed = @ + 1, !.raised = "clip",
                           !.result = "None",
                           !.selected = Append(@, Selection),
                           !.open.videos = @ + (IF opened THEN 1 ELSE 0)]
    /\ UNCHANGED <<det, prof, sel, cls, orch, choice>>

\* Lines 77-150, an exception while loading or processing the selected clip: the
\* interval is skipped.  VideoFileClip raised (nothing opened), or a later line
\* raised with the clip open; the except of lines 148-150 closes nothing.
ClipFails ==
    /\ InLoop
    /\ Len(ex.plan.clip_classifications) > 0
    /\ \E opened \in BOOLEAN :
          ex' = [ex EXCEPT !.k = @ + 1, !.failed = @ + 1,
                           !.selected = Append(@, Selection),
                           !.open.videos = @ + (IF opened THEN 1 ELSE 0)]
    /\ UNCHANGED <<det, prof, sel, cls, orch, choice>>

\* Lines 61-146: one interval is cut from the selected clip and appended to clips.
ClipSegment ==
    /\ InLoop
    /\ Len(ex.plan.clip_classifications) > 0
    /\ LET a    == ex.plan.beat_assignments[ex.k]
           i    == a.beat_idx
           d    == ex.plan.beat_times[i + 2] - ex.plan.beat_times[i + 1]
           path == Selection.path
           v    == ex.plan.clip_classifications[path].duration
       IN  \E cut \in Cuts(v, d) :
              ex' = [ex EXCEPT
                        !.k = @ + 1,
                        !.selected = Append(@, Selection),
                        !.open.videos = @ + 1,
                        !.clips = Append(@, [beat_idx |-> i, path |-> path, video |-> v,
                                             source |-> cut.source, loops |-> cut.loops,
                                             start |-> cut.start, end |-> cut.end,
                                             duration |-> cut.end - cut.start,
                                             effects |-> SegmentEffects(a.effects),
                                             crossfade |-> (i > 0)])]
    /\ UNCHANGED <<det, prof, sel, cls, orch, choice>>

\* The loop is over: every assignment was visited, or line 58 broke out of it.
LoopOver == ex.pc = "loop" /\ ~InLoop

\* Lines 152-154
NoClipsCreated ==
    /\ LoopOver
    /\ ex.clips = <<>>
    /\ ex' = [ex EXCEPT !.pc = "done", !.result = "None"]
    /\ UNCHANGED <<det, prof, sel, cls, orch, choice>>

\* Lines 156-190: concatenation, duration reconciliation, fades, audio.
Finalize ==
    /\ LoopOver
    /\ ex.clips /= <<>>
    /\ LET vd == Sum([c \in 1..Len(ex.clips) |-> ex.clips[c].duration])
       IN  ex' = [ex EXCEPT !.pc = "write", !.video_duration = vd,
                            !.final_duration = Reconcile(vd, ex.plan.audio_duration),
                            !.steps = FinalSteps]
    /\ UNCHANGED <<det, prof, sel, cls, orch, choice>>

\* One of the steps of lines 156-190 raises after n of them were taken: the outer
\* except returns None.
FinalizeFails ==
    /\ LoopOver
    /\ ex.clips /= <<>>
    /\ \E n \in 0..(Len(FinalSteps) - 1) :
          ex' = [ex EXCEPT !.pc = "done", !.steps = SubSeq(FinalSteps, 1, n),
                           !.raised = "final", !.result = "None"]
    /\ UNCHANGED <<det, prof, sel, cls, orch, choice>>

\* Lines 192-203: the file is written, the clips closed, the path returned.
\* close() is called on each segment of clips and on the audio sub-clip; each is
\* taken to close the reader it shares with the clip it was cut from.  A clip
\* opened for an interval that failed is in no segment and stays open.
WriteVideo ==
    /\ ex.pc = "write"
    /\ ex' = [ex EXCEPT !.pc = "done", !.file = "complete", !.result = "output_path",
                         !.steps = Append(@, "write"),
                         !.open = [audio_full |-> FALSE, audio |-> FALSE,
                                   videos |-> @.videos - Len(ex.clips)]]
    /\ UNCHANGED <<det, prof, sel, cls, orch, choice>>

\* write_videofile raises: the outer except returns None.  The encoder may have
\* raised before it created output_path or after it wrote part of it; nothing in
\* lines 205-209 removes the file.
WriteVideoFails ==
    /\ ex.pc = "write"
    /\ \E f \in {"absent", "partial"} :
          ex' = [ex EXCEPT !.pc = "done", !.raised = "write", !.file = f, !.result = "None"]
    /\ UNCHANGED <<det, prof, sel, cls, orch, choice>>

ExNext ==
    \/ LoadAudio \/ LoadAudioFails
    \/ NoCandidates \/ ClipFails \/ ClipSegment
    \/ NoClipsCreated \/ Finalize \/ FinalizeFails
    \/ WriteVideo \/ WriteVideoFails

ExSpec == ExInit /\ [][ExNext]_vars


\* C1: whenever at least one segment was produced, whatever intervals failed, the
\* video handed to the final render lasts within 0.1 s of the plan's audio segment,
\* the concatenated segments having been shorter or longer than the audio.
C1_VideoMatchesAudio ==
    (ex.pc = "write" \/ (ex.pc = "done" /\ ex.result = "output_path"))
    => /\ ex.final_duration - ex.plan.audio_duration <= 10
       /\ ex.plan.audio_duration - ex.final_duration <= 10

\* C1 witness: an interval failed, the segments that were cut add up to less than
\* the audio by more than 0.1 s, and the video about to be written has the audio's
\* duration.
C1_Witness ==
    /\ ex.pc = "write"
    /\ ex.failed > 0
    /\ ex.video_duration + 10 < ex.plan.audio_duration
    /\ ex.final_duration = ex.plan.audio_duration

\* C9: every segment cut for a beat interval of duration d > 0 from a clip of
\* duration v > 0 lasts exactly d and lies inside its source: start >= 0 and end
\* within the source, which is the clip looped ceil(d / v) times when v < d.
C9_SegmentCutInsideSource ==
    ex.pc /= "idle" =>
        \A c \in 1..Len(ex.clips) :
            LET seg == ex.clips[c]
                d   == ex.plan.beat_times[seg.beat_idx + 2] - ex.plan.beat_times[seg.beat_idx + 1]
                v   == ex.plan.clip_classifications[seg.path].duration
            IN  /\ seg.duration = d
                /\ seg.end - seg.start = d
                /\ seg.start >= 0
                /\ seg.end <= seg.source
                /\ seg.source = seg.loops * v
                /\ IF v < d THEN (seg.loops - 1) * v < d /\ d <= seg.loops * v
                            ELSE seg.loops = 1

\* C9 witness: a clip shorter than its beat interval was looped three times, not a
\* whole number of times the interval, and cut to the interval.
C9_Witness ==
    /\ ex.pc = "loop"
    /\ \E c \in 1..Len(ex.clips) :
          /\ ex.clips[c].video < ex.clips[c].duration
          /\ ex.clips[c].loops = 3
          /\ ex.clips[c].source > ex.clips[c].end
          /\ ex.clips[c].start = 0

\* C12: a clip that fails for one interval is skipped and the loop goes on: every
\* interval visited so far either produced a segment or was skipped.  The call
\* returns the output path whenever some interval produced a segment and no later
\* step raised, and None when no interval produced one (all failed, or no clips).
C12_FailedClipIsSkipped ==
    ex.pc /= "idle" =>
        /\ ex.k - 1 = Len(ex.clips) + ex.failed
        /\ ex.raised /= "clip"
        /\ (ex.pc = "done" /\ ex.clips /= <<>> /\ ex.raised = "none") => ex.result = "output_path"
        /\ (ex.pc = "done" /\ ex.clips = <<>>) => ex.result = "None"
        /\ (ex.pc = "done" /\ ex.result = "output_path") => ex.clips /= <<>>

\* C12 witness: the first interval failed, the second produced a segment, and the
\* call returned the output path.
C12_Witness ==
    /\ ex.pc = "done" /\ ex.result = "output_path"
    /\ ex.failed = 1
    /\ Len(ex.clips) = 1 /\ ex.clips[1].beat_idx = 1

\* C13: whenever execute_editing_plan returns None, it has left no file at the
\* output path, a failure of the final write included.
C13_NoFileOnFailure ==
    (ex.pc = "done" /\ ex.result = "None") => ex.file = "absent"

\* The position a clip has in the pool of a clip type: for rage the number of
\* clips of higher intensity plus the earlier clips of the same intensity, for calm
\* the same with lower intensity, for mixed the number of earlier clips.
PoolPosition(clips, clip_type, path) ==
    LET I(c) == clips[c].intensity
        Before == {c \in 1..Len(clips) :
                     IF clip_type = "rage" THEN I(c) > I(path) \/ (I(c) = I(path) /\ c < path)
                     ELSE IF clip_type = "calm" THEN I(c) < I(path) \/ (I(c) = I(path) /\ c < path)
                     ELSE c < path}
    IN  Cardinality(Before)

\* C25: with N >= 1 clips, the clip selected for an assignment is the one at
\* position beat_idx mod N of the pool of the assignment's clip type (descending
\* intensity for rage, ascending for calm, insertion order for mixed; clips of equal
\* intensity in insertion order), so the plan determines the choice.
C25_ClipAtBeatIndexModN ==
    ex.pc /= "idle" =>
        \A j \in 1..Len(ex.selected) :
            LET c == ex.selected[j]
                N == Len(ex.plan.clip_classifications)
            IN  /\ c.beat_idx = ex.plan.beat_assignments[j].beat_idx
                /\ c.clip_type = ex.plan.beat_assignments[j].clip_type
                /\ c.path \in 1..N
                /\ PoolPosition(ex.plan.clip_classifications, c.clip_type, c.path) = c.beat_idx % N

\* C25 witness: of two clips of different intensity, the second in insertion order
\* was selected for interval 0 as the most intense (rage), and the second again for
\* interval 1 as the second least intense (calm).
C25_Witness ==
    /\ ex.pc = "loop"
    /\ Len(ex.plan.clip_classifications) = 2
    /\ ex.plan.clip_classifications[1].intensity < ex.plan.clip_classifications[2].intensity
    /\ Len(ex.selected) = 2
    /\ ex.selected[1] = [beat_idx |-> 0, clip_type |-> "rage", path |-> 2]
    /\ ex.selected[2] = [beat_idx |-> 1, clip_type |-> "calm", path |-> 2]

\* C26: when the loop has visited the intervals of a plan with at least as many
\* intervals as clips, every clip was selected for at least one interval, whatever
\* the clip types of the intervals.
C26_EveryClipSelected ==
    (ex.pc = "loop" /\ ~InLoop
        /\ Len(ex.plan.beat_assignments) >= Len(ex.plan.clip_classifications))
    => \A c \in 1..Len(ex.plan.clip_classifications) :
           \E j \in 1..Len(ex.selected) : ex.selected[j].path = c

\* C27: a call that returns the output path took the steps concatenate, reconcile,
\* fades, audio, write in that order, the fades once and on the final video; no
\* segment, in any state, had fade_in or fade_out applied to it.
C27_FadesOnFinalVideoOnly ==
    ex.pc /= "idle" =>
        /\ (ex.pc = "done" /\ ex.result = "output_path")
           => ex.steps = <<"concatenate", "reconcile", "fades", "audio", "write">>
        /\ ex.result /= "output_path" => Count(ex.steps, "write") = 0
        /\ Count(ex.steps, "fades") <= 1
        /\ \A c \in 1..Len(ex.clips) :
               Count(ex.clips[c].effects, "fade_in") = 0 /\ Count(ex.clips[c].effects, "fade_out") = 0

\* C27 witness: a call returned the output path after the segment of an assignment
\* carrying both fades was cut and the concatenated video was brought to the
\* audio's duration.
C27_Witness ==
    /\ ex.pc = "done" /\ ex.result = "output_path"
    /\ Len(ex.clips) = 1
    /\ Count(ex.plan.beat_assignments[ex.clips[1].beat_idx + 1].effects, "fade_in") = 1
    /\ Count(ex.plan.beat_assignments[ex.clips[1].beat_idx + 1].effects, "fade_out") = 1
    /\ ex.video_duration /= ex.final_duration

\* C28: in the sequence of segments to concatenate, the first has no cross-fade-in
\* and every later one has, whatever intervals failed.
C28_CrossFadeOnAllButFirst ==
    ex.pc /= "idle" =>
        \A c \in 1..Len(ex.clips) : ex.clips[c].crossfade <=> (c > 1)

(***************************************************************************)
(* Plan builder: video_making/orchestrator.py, create_editing_plan.        *)
(*                                                                         *)
(* The call reads the audio through find_best_segment, detect_beats and    *)
(* get_audio_intensity_segments; what the last two return on the track is  *)
(* part of the call's input, the selector runs on the pattern and duration *)
(* the call draws.  An intensity is an integer number of hundredths (0.5   *)
(* is 50, 0.7 is 70).  The search queries and the clip classifications are *)
(* carried into the plan unread and are not part of the state.             *)
(***************************************************************************)
\* patterns of select_editing_pattern
OrchPatterns ==
    {<<"calm", "rage">>, <<"rage", "calm">>, <<"calm", "rage", "calm">>,
     <<"calm", "calm", "rage">>, <<"rage", "rage", "calm">>, <<"calm", "calm", "calm">>,
     <<"rage", "rage", "rage">>}

\* values of select_editing_intensity
IntensityLevels == {"low", "medium", "high"}

\* values of select_duration the model draws (cs): the lower clamp 6.0 s, and 8.0 s.
OrchTargets == {600, 800}

\* beat_times: the beats of the full track inside the segment, shifted to its start.
SegmentLocalBeatsMut(beat_times_full, segment_info) ==
    LET kept == SelectSeq(beat_times_full,
                          LAMBDA b : segment_info.start_time <= b /\ b < segment_info.end_time)
    IN  [k \in 1..Len(kept) |-> kept[k] - segment_info.start_time]

\* lines 240-242
SegmentLocalBeats(beat_times_full, segment_info) ==
    LET kept == SelectSeq(beat_times_full,
                          LAMBDA b : segment_info.start_time <= b /\ b <= segment_info.end_time)
    IN  [k \in 1..Len(kept) |-> kept[k] - segment_info.start_time]

\* The inner loop of lines 249-253: the 0-based index of the first beat of
\* beat_times_full[:-1] within 0.1 s of beat_start_abs, None when there is none.
FirstMatch(beat_times_full, beat_start_abs) ==
    LET js == {j \in 0..(Len(beat_times_full) - 2) :
                  Abs(beat_times_full[j + 1] - beat_start_abs) < 10}
    IN  IF js = {} THEN None ELSE Some(CHOOSE j \in js : \A h \in js : j <= h)

\* The loop of lines 246-253 from interval i on: a value is appended only when a
\* beat matches and the profile has a value at its index.
RECURSIVE RemapIntensities(_, _, _, _, _, _)
RemapIntensities(beat_times, start_time, beat_times_full, intensities_full, i, intensities) ==
    IF i >= Len(beat_times) - 1 THEN intensities
    ELSE LET m == FirstMatch(beat_times_full, beat_times[i + 1] + start_time)
         IN  RemapIntensities(beat_times, start_time, beat_times_full, intensities_full, i + 1,
                 IF m /= None /\ m[1] < Len(intensities_full)
                 THEN Append(intensities, intensities_full[m[1] + 1])
                 ELSE intensities)

\* intensity = intensities[i] if i < len(intensities) else 0.5, line 279
IntensityAt(intensities, i) == IF i < Len(intensities) THEN intensities[i + 1] ELSE 50

\* lines 259-262
CalmEndRelative(segment_info) ==
    IF segment_info.calm_end /= None
    THEN Some(segment_info.calm_end[1] - segment_info.start_time)
    ELSE None

\* lines 266-271 (cs)
FadeDuration(target_duration) ==
    IF target_duration <= 800 THEN 30 ELSE IF target_duration <= 1200 THEN 40 ELSE 50

\* A plausible slip: the thresholds of the two sections exchanged.
ClipTypeMut(pattern, calm_end_relative, beat_start, intensity) ==
    IF calm_end_relative = None
    THEN IF Count(pattern, "rage") > 0
         THEN (IF intensity > 50 THEN "rage" ELSE "mixed")
         ELSE (IF intensity < 50 THEN "calm" ELSE "mixed")
    ELSE IF beat_start < calm_end_relative[1]
         THEN (IF intensity < 30 THEN "calm" ELSE "mixed")
         ELSE (IF intensity > 70 THEN "rage" ELSE "mixed")

\* clip_type, lines 282-293
ClipType(pattern, calm_end_relative, beat_start, intensity) ==
    IF calm_end_relative = None
    THEN IF Count(pattern, "rage") > 0
         THEN (IF intensity > 50 THEN "rage" ELSE "mixed")
         ELSE (IF intensity < 50 THEN "calm" ELSE "mixed")
    ELSE IF beat_start < calm_end_relative[1]
         THEN (IF intensity < 70 THEN "calm" ELSE "mixed")
         ELSE (IF intensity > 30 THEN "rage" ELSE "mixed")

\* plan['intensity']: the name intensity holds the level select_editing_intensity
\* returned (line 225) until the loop of lines 277-279 rebinds it to the float of
\* each interval.
PlanIntensity(level, intensities, n) ==
    IF n = 0 THEN [type |-> "str", level |-> level, value |-> 0]
    ELSE [type |-> "float", level |-> "", value |-> IntensityAt(intensities, n - 1)]

\* Lines 236-338: the plan built from the creative choices and the three analyses.
CreateEditingPlan(pattern, level, target_duration, segment_info, beat_times_full, intensities_full) ==
    LET beat_times == SegmentLocalBeats(beat_times_full, segment_info)
        intensities == RemapIntensities(beat_times, segment_info.start_time, beat_times_full,
                                        intensities_full, 0, <<>>)
        calm_end_relative == CalmEndRelative(segment_info)
        n == IF Len(beat_times) = 0 THEN 0 ELSE Len(beat_times) - 1
    IN  [target_duration |-> target_duration,
         audio_segment |-> [start |-> segment_info.start_time, end |-> segment_info.end_time,
                            calm_end |-> calm_end_relative],
         beat_times |-> beat_times,
         beat_assignments |->
            [k \in 1..n |->
                [beat_idx |-> k - 1, beat_time |-> beat_times[k],
                 clip_type |-> ClipType(pattern, calm_end_relative, beat_times[k],
                                        IntensityAt(intensities, k - 1)),
                 intensity |-> IntensityAt(intensities, k - 1),
                 effects |-> PlanEffects(k - 1, n)]],
         fade_duration |-> FadeDuration(target_duration),
         pattern |-> pattern,
         intensity |-> PlanIntensity(level, intensities, n)]

\* A track of n whole seconds and a half: silent for its first a seconds, at
\* energy 1 afterwards.
StepTrack(n, a) ==
    [total_duration |-> 100 * n + 50, energies |-> [k \in 1..n |-> IF k > a THEN 1 ELSE 0]]

\* Tracks of the model: one shorter than every target, three longer.
OrchTracks == {StepTrack(2, 1)} \cup {StepTrack(8, a) : a \in {0, 4, 8}}

\* Times (cs, on the 50 ms chunk grid) at which detect_beats finds beats.
OrchBeatGrid == {0, 100, 150, 155, 650, 700}

\* The elements of a set of times in increasing order.
RECURSIVE Ascending(_)
Ascending(S) ==
    IF S = {} THEN <<>>
    ELSE LET m == CHOOSE x \in S : \A y \in S : x <= y
         IN  <<m>> \o Ascending(S \ {m})

\* What detect_beats can return on a readable track: increasing chunk times
\* before its end.
OrchBeatSeqs(total_duration) ==
    {Ascending(S) : S \in {T \in SUBSET {t \in OrchBeatGrid : t < total_duration} :
                              Cardinality(T) <= OrchMaxBeats}}

\* What get_audio_intensity_segments can return on a readable track for n beats:
\* n - 1 values, all 0.0 or the largest 1.0.
OrchIntensitySeqs(n) ==
    {v \in [1..(IF n = 0 THEN 0 ELSE n - 1) -> {0, 30, 50, 70, 100}] :
        \/ \A k \in 1..Len(v) : v[k] = 0
        \/ \E k \in 1..Len(v) : v[k] = 100}

\* A call of create_editing_plan that has not run yet, with what the detector and
\* the profiler return on its audio file.
OrchCalls ==
    {[pc |-> "call", audio |-> "ok", track |-> t, beat_times_full |-> b, intensities_full |-> v,
      pattern |-> <<>>, level |-> "", target_duration |-> 0,
      segment_info |-> [start_time |-> 0, end_time |-> 0, duration |-> 0, calm_end |-> None],
      result |-> "none"] :
        t \in OrchTracks, b \in UNION {OrchBeatSeqs(u.total_duration) : u \in OrchTracks},
        v \in UNION {OrchIntensitySeqs(n) : n \in 0..OrchMaxBeats}}
    \cup
    {[pc |-> "call", audio |-> a, track |-> t,
      beat_times_full |-> DetectBeats(a, <<>>, t.total_duration, 30).beat_times,
      intensities_full |->
          GetAudioIntensitySegments(a, <<>>, DetectBeats(a, <<>>, t.total_duration, 30).beat_times),
      pattern |-> <<>>, level |-> "", target_duration |-> 0,
      segment_info |-> [start_time |-> 0, end_time |-> 0, duration |-> 0, calm_end |-> None],
      result |-> "none"] :
        a \in {"analysis_error", "unreadable"}, t \in OrchTracks}

OrchInit ==
    /\ orch \in {c \in OrchCalls :
                    c.audio = "ok" =>
                        /\ c.beat_times_full \in OrchBeatSeqs(c.track.total_duration)
                        /\ c.intensities_full \in OrchIntensitySeqs(Len(c.beat_times_full))}
    /\ det = Idle /\ prof = Idle /\ sel = Idle /\ cls = Idle /\ ex = Idle /\ choice = Idle

\* create_editing_plan draws its pattern, intensity level and duration, runs the
\* selector and builds the plan.
CreateEditingPlanCall ==
    /\ orch.pc = "call"
    /\ \E pattern \in OrchPatterns, level \in IntensityLevels, target_duration \in OrchTargets :
          LET segment_info == FindBestSegment(orch.audio, orch.track.total_duration,
                                              orch.track.energies, target_duration, pattern)
          IN  orch' = [orch EXCEPT
                          !.pc = "done", !.pattern = pattern, !.level = level,
                          !.target_duration = target_duration, !.segment_info = segment_info,
                          !.result = CreateEditingPlan(pattern, level, target_duration, segment_info,
                                                       orch.beat_times_full,
                                                       orch.intensities_full)]
    /\ UNCHANGED <<det, prof, sel, cls, ex, choice>>

OrchNext == CreateEditingPlanCall

OrchSpec == OrchInit /\ [][OrchNext]_vars

\* The beats 0, 0.5, 1.0, ... up to and including the time last.
HalfSecondGrid(last) == [k \in 1..(last \div 50 + 1) |-> 50 * (k - 1)]

BeatsInSegment ==
    {k \in 1..Len(orch.beat_times_full) :
        /\ orch.segment_info.start_time <= orch.beat_times_full[k]
        /\ orch.beat_times_full[k] <= orch.segment_info.end_time}

\* C18: when fewer than two detected beats fall inside the segment, the plan's
\* beat_times are a grid at 0.5 s spacing over the segment, so the plan has an
\* assignment whenever the segment is longer than 0.5 s.
C18_GridWhenFewBeats ==
    (orch.pc = "done" /\ Cardinality(BeatsInSegment) < 2) =>
        LET bt  == orch.result.beat_times
            dur == orch.segment_info.end_time - orch.segment_info.start_time
        IN  /\ Len(bt) >= 1 /\ bt[1] = 0
            /\ \A k \in 1..(Len(bt) - 1) : bt[k + 1] - bt[k] = 50
            /\ bt[Len(bt)] <= dur /\ dur <= bt[Len(bt)] + 50
            /\ dur > 50 => Len(orch.result.beat_assignments) >= 1

\* The 0-based index in the full track of the beat that starts the segment-local
\* interval i (0-based).
FullIndexOf(i) ==
    (CHOOSE k \in 1..Len(orch.beat_times_full) :
        orch.beat_times_full[k] = orch.result.beat_times[i + 1] + orch.segment_info.start_time) - 1

\* C19: the intensity of the segment-local interval i is the full-track profile
\* value of the interval that starts at the same beat, and 0.5 when the profile has
\* no value there: no interval takes the value of a neighbouring beat, and none is
\* shifted by an interval without a value.
C19_IntensityOfSameBeat ==
    orch.pc = "done" =>
        \A i \in 0..(Len(orch.result.beat_assignments) - 1) :
            LET j == FullIndexOf(i)
            IN  orch.result.beat_assignments[i + 1].intensity =
                   (IF j < Len(orch.beat_times_full) - 1 /\ j < Len(orch.intensities_full)
                    THEN orch.intensities_full[j + 1] ELSE 50)

\* A plan whose segment has a transition point.
PlanWithTransition == orch.pc = "done" /\ orch.result.audio_segment.calm_end /= None

\* C20 as stated: with a transition point, an interval starting before it is calm
\* unless its intensity exceeds 0.7 (then mixed), one starting at or after it is
\* rage unless its intensity is below 0.3 (then mixed); exactly 0.7 gives calm and
\* exactly 0.3 gives rage.
C20_LeanUnlessBeyondThreshold ==
    PlanWithTransition =>
        \A k \in 1..Len(orch.result.beat_assignments) :
            LET a == orch.result.beat_assignments[k]
            IN  IF a.beat_time < orch.result.audio_segment.calm_end[1]
                THEN a.clip_type = (IF a.intensity > 70 THEN "mixed" ELSE "calm")
                ELSE a.clip_type = (IF a.intensity < 30 THEN "mixed" ELSE "rage")

\* C20 as amended: an interval before the transition is calm unless its intensity
\* is at least 0.7 (then mixed), one at or after it is rage unless its intensity is
\* at most 0.3 (then mixed); exactly 0.7 and exactly 0.3 give mixed.
C20_LeanUnlessAtOrBeyondThreshold ==
    PlanWithTransition =>
        \A k \in 1..Len(orch.result.beat_assignments) :
            LET a == orch.result.beat_assignments[k]
            IN  IF a.beat_time < orch.result.audio_segment.calm_end[1]
                THEN a.clip_type = (IF a.intensity >= 70 THEN "mixed" ELSE "calm")
                ELSE a.clip_type = (IF a.intensity <= 30 THEN "mixed" ELSE "rage")

\* C20 witness: a plan with an interval of intensity exactly 0.7 before the
\* transition, assigned mixed, and a louder interval after it, assigned rage.
C20_Witness ==
    /\ PlanWithTransition
    /\ \E k \in 1..Len(orch.result.beat_assignments) :
          LET a == orch.result.beat_assignments[k]
          IN  /\ a.beat_time < orch.result.audio_segment.calm_end[1]
              /\ a.intensity = 70 /\ a.clip_type = "mixed"
    /\ \E k \in 1..Len(orch.result.beat_assignments) :
          LET a == orch.result.beat_assignments[k]
          IN  /\ a.beat_time >= orch.result.audio_segment.calm_end[1]
              /\ a.intensity = 100 /\ a.clip_type = "rage"

\* C21: without a transition point, a rage-dominant pattern (rage-rage-rage,
\* rage-rage-calm) gives rage iff the intensity is above 0.5 and mixed otherwise; a
\* calm-dominant pattern (calm-calm-calm, calm-calm-rage) gives calm iff the
\* intensity is below 0.5 and mixed otherwise, and never rage.
C21_DominantPatternTypes ==
    (orch.pc = "done" /\ orch.result.audio_segment.calm_end = None) =>
        \A k \in 1..Len(orch.result.beat_assignments) :
            LET a == orch.result.beat_assignments[k]
            IN  /\ orch.pattern \in {<<"rage", "rage", "rage">>, <<"rage", "rage", "calm">>}
                   => a.clip_type = (IF a.intensity > 50 THEN "rage" ELSE "mixed")
                /\ orch.pattern \in {<<"calm", "calm", "calm">>, <<"calm", "calm", "rage">>}
                   => a.clip_type = (IF a.intensity < 50 THEN "calm" ELSE "mixed")

\* C22: every assignment carries flash and zoom_pulse once; fade_in is carried by
\* the assignment of index 0 and no other, fade_out by the last and no other.
C22_EffectsOfAssignments ==
    orch.pc = "done" =>
        LET n == Len(orch.result.beat_assignments)
        IN  \A k \in 1..n :
                LET e == orch.result.beat_assignments[k].effects
                IN  /\ orch.result.beat_assignments[k].beat_idx = k - 1
                    /\ Count(e, "flash") = 1 /\ Count(e, "zoom_pulse") = 1
                    /\ Count(e, "fade_in") = (IF k = 1 THEN 1 ELSE 0)
                    /\ Count(e, "fade_out") = (IF k = n THEN 1 ELSE 0)

\* C22 witness: a plan of a single interval, whose only assignment carries both
\* fades and the two per-interval effects.
C22_Witness ==
    /\ orch.pc = "done"
    /\ Len(orch.result.beat_assignments) = 1
    /\ orch.result.beat_assignments[1].effects = <<"fade_in", "fade_out", "flash", "zoom_pulse">>

\* C24: the intensity stored in the plan is the level select_editing_intensity
\* returned (low, medium or high), whatever the number of beat intervals.
C24_PlanKeepsIntensityLevel ==
    orch.pc = "done" =>
        /\ orch.result.intensity.type = "str"
        /\ orch.result.intensity.level = orch.level
        /\ orch.result.intensity.level \in IntensityLevels

(***************************************************************************)
(* Creative decisions: video_making/orchestrator.py, select_editing_pattern,*)
(* select_editing_intensity and select_duration, which create_editing_plan *)
(* calls in turn on one temperature.  A temperature is an integer number   *)
(* of hundredths (0.4 is 40); each function returns one of the values its  *)
(* random draw can give in the band its own thresholds put the temperature *)
(* in.                                                                     *)
(***************************************************************************)
\* The branch select_editing_pattern takes, lines 124-134.
PatternBand(temperature) ==
    IF temperature > 70 THEN "high" ELSE IF temperature > 40 THEN "medium" ELSE "low"

\* The branch select_editing_intensity takes, lines 145-153.
IntensityBand(temperature) ==
    IF temperature > 70 THEN "high" ELSE IF temperature > 30 THEN "medium" ELSE "low"

\* The branch select_duration takes, lines 179-187.
DurationBand(temperature) ==
    IF temperature > 60 THEN "high" ELSE IF temperature > 30 THEN "medium" ELSE "low"

\* The patterns select_editing_pattern can return: random.choice over the seven, or
\* random.choices with weights that are all positive.
SelectEditingPattern(temperature) == OrchPatterns

\* The levels select_editing_intensity can return.
SelectEditingIntensity(temperature) ==
    CASE IntensityBand(temperature) = "high" -> {"medium", "high"}
      [] IntensityBand(temperature) = "medium" -> {"low", "medium", "high"}
      [] OTHER -> {"low", "medium"}

\* max(6.0, min(20.0, duration)), in cs
ClampDuration(duration) == Max2(600, Min2(2000, duration))

\* The durations (cs) select_duration can return, random.uniform sampled at the ends
\* and the middle of its range.
SelectDuration(clip_count, temperature) ==
    LET base == IF clip_count >= 10 THEN <<1400, 2000>>
                ELSE IF clip_count >= 5 THEN <<1000, 1600>>
                ELSE IF clip_count >= 3 THEN <<800, 1200>>
                ELSE <<600, 1000>>
        mid(r) == (r[1] + r[2]) \div 2
        range == CASE DurationBand(temperature) = "high" -> <<base[1] - 200, base[2] + 200>>
                   [] DurationBand(temperature) = "medium" -> base
                   [] OTHER -> <<mid(base), mid(base)>>
    IN  {ClampDuration(d) : d \in {range[1], mid(range), range[2]}}

\* Numbers of available clips, one in each bracket of select_duration.
ClipCounts == {2, 3, 5, 10}

ChoiceInit ==
    /\ choice \in {[pc |-> "call", temperature |-> t, clip_count |-> n, pattern |-> <<>>,
                     level |-> "none", target_duration |-> 0,
                     band |-> [pattern |-> "none", intensity |-> "none", duration |-> "none"]] :
                       t \in 0..100, n \in ClipCounts}
    /\ det = Idle /\ prof = Idle /\ sel = Idle /\ cls = Idle /\ ex = Idle /\ orch = Idle

\* Lines 220-229 of create_editing_plan: the three selections on the temperature.
CreativeDecisions ==
    /\ choice.pc = "call"
    /\ \E pattern \in SelectEditingPattern(choice.temperature),
          intensity \in SelectEditingIntensity(choice.temperature),
          target_duration \in SelectDuration(choice.clip_count, choice.temperature) :
          choice' = [choice EXCEPT
                        !.pc = "done", !.pattern = pattern, !.level = intensity,
                        !.target_duration = target_duration,
                        !.band = [pattern |-> PatternBand(choice.temperature),
                                  intensity |-> IntensityBand(choice.temperature),
                                  duration |-> DurationBand(choice.temperature)]]
    /\ UNCHANGED <<det, prof, sel, cls, ex, orch>>

ChoiceNext == CreativeDecisions

ChoiceSpec == ChoiceInit /\ [][ChoiceNext]_vars

\* The band of a temperature: low below 0.4, medium from 0.4 to below 0.7, high
\* from 0.7.
BandOf(temperature) ==
    IF temperature < 40 THEN "low" ELSE IF temperature < 70 THEN "medium" ELSE "high"

\* C23: for every temperature in [0, 1] the pattern choice, the intensity-level
\* choice and the duration choice are all made in the same band, the band of the
\* temperature: low below 0.4, medium from 0.4 to below 0.7, high otherwise.
C23_OneBandForAllChoices ==
    choice.pc = "done" =>
        /\ choice.band.pattern = BandOf(choice.temperature)
        /\ choice.band.intensity = BandOf(choice.temperature)
        /\ choice.band.duration = BandOf(choice.temperature)

\* C29: when a call of execute_editing_plan, classify_clip_emotion or
\* find_best_segment has returned, on any path, every media handle it opened is
\* closed: the audio clips and source video clips of the executor, the video capture
\* of the classifier, the audio clip of the selector.
C29_HandlesClosedOnReturn ==
    /\ ex.pc = "done" => ex.open = NoHandles
    /\ cls.pc = "done" => cls.capture /= "open"
    /\ sel.pc = "done" => sel.audio_clip /= "open"

\* C30: the intensity of classify_clip_emotion never decreases when the motion
\* score increases: a clip of higher score than the clip classified has an intensity
\* at least as high.
C30_IntensityMonotoneInMotion ==
    (cls.pc = "done" /\ cls.video = "ok") =>
        \A m \in 0..MaxMotion :
            m > cls.avg_motion => ClassifyMotion(m).intensity >= cls.result.intensity

(***************************************************************************)
(* The components together: one call of any of them.                       *)
(***************************************************************************)
Init == DetInit \/ ProfInit \/ SelInit \/ ClsInit \/ ExInit \/ OrchInit \/ ChoiceInit

Next == DetNext \/ ProfNext \/ SelNext \/ ClsNext \/ ExNext \/ OrchNext \/ ChoiceNext

Spec == Init /\ [][Next]_vars

=============================================================================
